---- MODULE Spec2Model ----
(***************************************************************************)
(* Bleed-extension and export pipeline of prep-print-pro.                  *)
(*                                                                         *)
(* One dashboard run: useProcessing.handleProcessing drives                *)
(* ImageProcessor.processFile, ProcessingWorkflow.processImageWithNew-     *)
(* Workflow, AIBleedProcessor.processIntelligentBleed and                  *)
(* AIInpaintingService.tryAIInpainting, then the PDF export and upload.    *)
(*                                                                         *)
(* JavaScript runs every task to completion.  An action below is the code  *)
(* that runs between two awaits.  Where an await only waits for a promise  *)
(* that is already settled (a microtask hop), the position is listed in    *)
(* Busy and every action of another task (user click, timer, network       *)
(* completion, clock) is disabled there.                                   *)
(*                                                                         *)
(* The source tree holds several revisions of the workflow and of the      *)
(* inpainting service; cfg selects the revision, so every behaviour of     *)
(* each revision is a behaviour of the model.                              *)
(***************************************************************************)
EXTENDS Integers, Sequences, FiniteSets, TLC

\* ------------------------------------------------------------------ bounds
\* Length of one clock tick in milliseconds (granularity of the model clock).
TickMs == 15000
\* Last clock value the model explores.
MaxTime == 4

\* ------------------------------------------------------- program constants
AI_TIMEOUT == 15000
StageTimeoutMs == 45000
AbortTimerMs == 30000
RunTimeoutMs == 60000
PdfTimeoutMs == 30000

Ticks(ms) == (ms + TickMs - 1) \div TickMs

\* The four margin areas, in the order extractAllBleedMarginAreas pushes them.
Areas == <<"top", "bottom", "left", "right">>

\* Stage names, in pipeline order.
Stages == <<"convert", "position", "bleed", "cutLines", "rasterExport", "pdfExport">>

\* What a provider round trip (fetch, status, JSON body, image load) can do.
ProviderOutcomes ==
    {"ok", "netFail", "errResponse", "malformed", "imgLoadFail", "imgLoadTimeout"}

VARIABLES
    cfg,               \* revision and configuration of this run (constant)
    now,               \* clock, in ticks
    token,             \* CancellationToken {cancelled, reason}
    canvasDestroyed,   \* CanvasManager.destroy() has zeroed the canvas
    imageProcessorRef, \* imageProcessorRef.current: 0 (null) or the run whose processor it holds
    processingState,   \* useProcessing processingState
    processingError,   \* useProcessing processingError (message of the caught error)
    hpc,               \* position of handleProcessing
    wpc,               \* position of processFile / processImageWithNewWorkflow
    wres,              \* value or error the processFile promise settled with
    apc,               \* position of processIntelligentBleed
    areaIdx,           \* index in Areas of the area being processed
    attempts,          \* provider attempts of the current fill request, each
                       \* "pending", "img", "timeout" or "failed"
    lastFill,          \* the last finished tryAIInpainting: its attempts, how the
                       \* last one ended, what it returned and whether it
                       \* returned within the call timeout of its last attempt
    tCall,             \* time the awaited provider call started
    tStage,            \* time the AI stage race started
    controllerAborted, \* revision 2: controller.signal.aborted of the AI stage
    tPdf,              \* time the PDF creation race started
    inflight,          \* provider requests sent and not yet settled
    begun,             \* history: stages begun, in order
    begunCancelled,    \* history: stages begun while the token was cancelled
    outcomes,          \* history: terminal outcomes reported to the user
    errorRecords,      \* history: rows written with processing_status "error"
    cancelStages,      \* history: stages begun when the user cancelled, or -1
    fillerRuns,        \* history: executions of BleedFallbackFiller
    lateWork,          \* history: bleed-stage work done once cut lines had begun
    reqWhileCancelled, \* history: a provider request started on a cancelled token
    failStage,         \* history: stage the workflow was in when Failed was reported
    failReport,        \* history: how Failed was reported: the title of the toast,
                       \* the step prefix of the logged error_message, and the
                       \* number of stages begun by then
    waitedOutsideAI,   \* history: the clock advanced while source conversion ran
    progress,          \* processingProgress: the percent value last reported
    progressDropped,   \* history: a reported percent value was below the one before
    ppc,               \* position of a stand-alone call of a pure function ("off" in a run)
    dims,              \* its arguments bleedPixels, finalWidth, finalHeight
    buffer0,           \* image data of the canvas before finalFillBleedFromEdge
    buffer,            \* image data of the canvas
    filledCount,       \* filledCount of the last finalFillBleedFromEdge
    marginAreas,       \* result of extractAllBleedMarginAreas
    params,            \* ProcessingParameters: sizes in mm, dpi
    canvasDims,        \* width and height of the canvas set up for params; the
                       \* finalDimensions of the result, if a result is built
    exportIn,          \* an export call: encoded image bytes and what fails
    exportOut,         \* how the export call settled and the size it handed back
    maskRequests,      \* per margin area: the size of the context image sent to
                       \* the provider, the source rect drawn into it, and the
                       \* white rect of the mask
    runs,              \* dashboard with several runs: per run the position of its
                       \* handleProcessing, its processor's token and whether
                       \* its processor was destroyed
    cleanups,          \* history: <<r, p>> when the failure cleanup of run r
                       \* destroyed the processor of run p
    validationResult   \* dashboard: "none", "valid" or "invalid"

ctlVars == <<cfg, now, token, canvasDestroyed, imageProcessorRef, processingState>>
pcVars == <<hpc, wpc, wres, tPdf, processingError>>
aiVars == <<apc, areaIdx, attempts, lastFill, tCall, tStage, controllerAborted, inflight>>
histVars == <<begun, begunCancelled, outcomes, errorRecords, cancelStages,
              fillerRuns, lateWork, reqWhileCancelled, failStage, failReport, waitedOutsideAI,
              progress, progressDropped>>
pureVars == <<ppc, dims, buffer0, buffer, filledCount, marginAreas, params, canvasDims,
              exportIn, exportOut, maskRequests>>
dashVars == <<runs, cleanups, validationResult>>
vars == <<ctlVars, pcVars, aiVars, histVars, pureVars, dashVars>>

\* ------------------------------------------------------------ configuration
\* wfRev: revision of ProcessingWorkflow (1: 45 s race around the AI stage;
\* 2: outpainting branch, no race).  svcRev: revision of AIInpaintingService
\* ("single": HuggingFace only; "chain": HuggingFace, then OpenAI).  The
\* outpainting parameter exists in revision 2 only and makes the keys
\* irrelevant; the single-provider revision never uses the OpenAI key.
Configs ==
    { c \in [wfRev : {1, 2}, useAIOutpaint : BOOLEAN, svcRev : {"single", "chain"},
             hasHuggingFace : BOOLEAN, hasOpenAI : BOOLEAN] :
        /\ c.useAIOutpaint =>
             (c.wfRev = 2 /\ c.svcRev = "single" /\ ~c.hasHuggingFace /\ ~c.hasOpenAI)
        /\ c.svcRev = "single" => ~c.hasOpenAI }

\* ------------------------------------------------------- CancellationToken
NewToken == [cancelled |-> FALSE, reason |-> "none"]

\* A cancel that flips the flag.
CancelToggles(tok, reason) == [cancelled |-> ~tok.cancelled, reason |-> reason]

\* cancel(reason)
TokenCancel(tok, reason) == [cancelled |-> TRUE, reason |-> reason]

\* A cancellation check that never throws.
NeverThrows(tok) == FALSE

\* throwIfCancelled: TRUE when it throws.
ThrowIfCancelled(tok) == tok.cancelled

\* The Error throwIfCancelled throws: `Processing cancelled: ${reason}`.
CancelledError(tok) == <<"Processing cancelled", tok.reason>>

\* error?.message?.includes('cancelled') of handleProcessing's catch block.
MessageIncludesCancelled(err) == err[1] = "Processing cancelled"

\* ------------------------------------------------------ AIInpaintingService
HasAnyKey(c) ==
    IF c.svcRev = "single" THEN c.hasHuggingFace
    ELSE c.hasOpenAI \/ c.hasHuggingFace

\* Providers tryAIInpainting will call, in the order of its code.
ProviderList(c) ==
    IF c.svcRev = "single"
    THEN IF c.hasHuggingFace THEN <<"huggingface">> ELSE <<>>
    ELSE (IF c.hasHuggingFace THEN <<"huggingface">> ELSE <<>>)
         \o (IF c.hasOpenAI THEN <<"openai">> ELSE <<>>)

\* callHuggingFaceLaMa / callOpenAIInpainting: what the call's promise does.
\* Failures inside the try block are caught and give null; the image-load
\* promise is returned without await, so its rejection escapes the catch.
CallResult(outcome) ==
    CASE outcome = "ok" -> "img"
      [] outcome \in {"netFail", "errResponse", "malformed"} -> "null"
      [] outcome \in {"imgLoadFail", "imgLoadTimeout"} -> "reject"

\* withTimeout: the timer set at `start` has expired at time t.
\* A call timer that never fires.
TimerNeverFires(start, t) == FALSE

WithTimeoutExpired(start, t) == t >= start + Ticks(AI_TIMEOUT)

\* A fill that tries the failed provider again.
RetryOnFailure(list, k, res) ==
    IF res = "img" THEN [ret |-> "img", next |-> 0]
    ELSE IF k <= Len(list) THEN [ret |-> "none", next |-> k]
    ELSE [ret |-> "null", next |-> 0]

\* A fill that lets a rejection or a timeout escape to its caller.
RethrowFailure(list, k, res) ==
    IF res = "img" THEN [ret |-> "img", next |-> 0]
    ELSE IF res \in {"reject", "timeout"} THEN [ret |-> "throw", next |-> 0]
    ELSE IF k < Len(list) THEN [ret |-> "none", next |-> k + 1]
    ELSE [ret |-> "null", next |-> 0]

\* How an ended attempt is remembered: with an image, timed out, or failed
\* (null or a rejection, which tryAIInpainting treats alike).
AttemptEnd(res) == IF res \in {"img", "timeout"} THEN res ELSE "failed"

\* tryAIInpainting after attempt k of `list` ended with res: return the image,
\* go on to the next provider (every failure is caught and logged), or return
\* null after the last one.
FillStep(list, k, res) ==
    IF res = "img" THEN [ret |-> "img", next |-> 0]
    ELSE IF k < Len(list) THEN [ret |-> "none", next |-> k + 1]
    ELSE [ret |-> "null", next |-> 0]

\* ------------------------------------------------------------------- state
\* The dashboard with a validated file and a signed-in user, before the run.
RunInit ==
    /\ now = 0
    /\ token = NewToken
    /\ canvasDestroyed = FALSE
    /\ imageProcessorRef = 0
    /\ processingState = "validated"
    /\ processingError = "none"
    /\ hpc = "idle"
    /\ wpc = "none"
    /\ wres = <<"pending", "none">>
    /\ tPdf = 0
    /\ apc = "none"
    /\ areaIdx = 0
    /\ attempts = <<>>
    /\ lastFill = [attempts |-> <<>>, last |-> "none", ret |-> "none", onTime |-> TRUE]
    /\ tCall = 0
    /\ tStage = 0
    /\ controllerAborted = FALSE
    /\ inflight = {}
    /\ begun = <<>>
    /\ begunCancelled = {}
    /\ outcomes = <<>>
    /\ errorRecords = 0
    /\ cancelStages = -1
    /\ fillerRuns = 0
    /\ lateWork = {}
    /\ reqWhileCancelled = FALSE
    /\ failStage = "none"
    /\ failReport = [title |-> "none", prefix |-> "none", stages |-> 0]
    /\ waitedOutsideAI = FALSE
    /\ progress = 0
    /\ progressDropped = FALSE

\* No stand-alone call of a pure function is under way.
PureIdle ==
    /\ ppc = "off"
    /\ dims = [bleedPixels |-> 0, finalWidth |-> 0, finalHeight |-> 0]
    /\ buffer0 = <<>>
    /\ buffer = <<>>
    /\ filledCount = 0
    /\ marginAreas = <<>>
    /\ params = <<>>
    /\ canvasDims = <<>>
    /\ exportIn = <<>>
    /\ exportOut = <<>>
    /\ maskRequests = <<>>

\* The dashboard is followed through one run only.
DashIdle ==
    /\ runs = <<>>
    /\ cleanups = {}
    /\ validationResult = "none"

Init ==
    /\ cfg \in Configs
    /\ RunInit
    /\ PureIdle
    /\ DashIdle

\* Positions inside one JavaScript task: nothing of another task runs here.
Busy ==
    \/ wpc \in {"position", "bleedDone", "export"}
    \/ (wpc \in {"resolved", "rejected"} /\ hpc = "awaitProcessFile")
    \/ (apc = "done" /\ wpc \in {"aiRace", "aiAwait"})

CutLinesBegun == \E i \in 1..Len(begun) : begun[i] = "cutLines"

CurrentStage == IF begun = <<>> THEN "none" ELSE begun[Len(begun)]

\* Record that the stages ss begin now.
Begin(ss) ==
    /\ begun' = begun \o ss
    /\ begunCancelled' =
         begunCancelled \cup
         (IF token.cancelled THEN {ss[i] : i \in 1..Len(ss)} ELSE {})

Late(kind) == IF CutLinesBegun THEN {kind} ELSE {}

\* The percent values ps are reported, in this order (setProcessingProgress,
\* directly or through the processor's progress callback).
Report(ps) ==
    /\ progress' = ps[Len(ps)]
    /\ progressDropped' =
         \/ progressDropped
         \/ ps[1] < progress
         \/ \E i \in 1..(Len(ps) - 1) : ps[i + 1] < ps[i]

NoReport == UNCHANGED <<progress, progressDropped>>

\* ------------------------------------------------- useProcessing (handler)
\* The words the catch block looks for, as each error message holds them.
MessageWords(msg) ==
    CASE msg = "Processing cancelled" -> {"cancelled"}
      [] msg = "PDF conversion failed" -> {"PDF"}
      [] msg = "Processing timeout after 60 seconds" -> {"timeout"}
      [] msg = "AI bleed processing timeout" -> {"AI", "timeout"}
      [] msg = "AI outpainting failed" -> {"AI"}
      [] msg = "Failed to load processed image for PDF creation" -> {"PDF"}
      [] msg = "PDF creation timeout after 30 seconds" -> {"PDF", "timeout"}
      [] OTHER -> {}

\* The title of the toast the catch block shows for an error message.
ErrorTitle(msg) ==
    IF "timeout" \in MessageWords(msg) THEN "Processing Timeout"
    ELSE IF "PDF" \in MessageWords(msg) THEN "PDF Conversion Failed"
    ELSE IF "AI" \in MessageWords(msg) \/ "extrapolation" \in MessageWords(msg)
    THEN "AI Processing Failed"
    ELSE "Processing Failed"

\* processingStep as the catch block reads it: the value of the render whose
\* handleProcessing was called, null on a dashboard that has run nothing yet.
\* setProcessingStep calls made during the run do not reach this closure.
ClosureProcessingStep == "none"

\* The catch block of handleProcessing.
Catch(err) ==
    /\ processingError' = err[1]
    /\ IF MessageIncludesCancelled(err)
       THEN /\ hpc' = "done"
            /\ UNCHANGED <<outcomes, errorRecords, failStage, failReport>>
       ELSE /\ hpc' = "awaitErrLog"
            /\ outcomes' = Append(outcomes, "Failed")
            /\ errorRecords' = errorRecords + 1
            /\ failStage' = CurrentStage
            /\ failReport' = [title |-> ErrorTitle(err[1]),
                              prefix |-> ClosureProcessingStep,
                              stages |-> Len(begun)]

\* handleProcessing up to its first await, with a file and a signed-in user:
\* new ImageProcessor, processor.processFile up to the source conversion.
StartRun ==
    /\ hpc = "idle"
    /\ processingState = "validated"
    /\ processingState' = "processing"
    /\ token' = NewToken
    /\ imageProcessorRef' = 1
    /\ hpc' = "awaitProcessFile"
    /\ processingError' = "none"
    /\ IF ThrowIfCancelled(NewToken)
       THEN /\ wpc' = "rejected"
            /\ wres' = CancelledError(NewToken)
            /\ UNCHANGED <<begun, begunCancelled>>
            /\ Report(<<0, 5, 10>>)
       ELSE /\ wpc' = "convert"
            /\ wres' = wres
            /\ begun' = <<"convert">>
            /\ begunCancelled' = begunCancelled
            /\ Report(<<0, 5, 10, 10>>)
    /\ UNCHANGED <<cfg, now, canvasDestroyed, tPdf, aiVars, outcomes, errorRecords,
                   cancelStages, fillerRuns, lateWork, reqWhileCancelled, failStage, failReport,
                   waitedOutsideAI>>
    /\ UNCHANGED pureVars
    /\ UNCHANGED dashVars

\* handleCancelProcessing.
CancelProcessing ==
    /\ processingState = "processing"
    /\ ~Busy
    /\ IF imageProcessorRef # 0
       THEN /\ token' = TokenCancel(token, "User cancelled")
            /\ imageProcessorRef' = 0
            /\ cancelStages' = IF token.cancelled THEN cancelStages ELSE Len(begun)
       ELSE UNCHANGED <<token, imageProcessorRef, cancelStages>>
    /\ processingState' = "validated"
    /\ outcomes' = Append(outcomes, "Cancelled")
    /\ UNCHANGED <<cfg, now, canvasDestroyed, pcVars, aiVars, begun, begunCancelled,
                   errorRecords, fillerRuns, lateWork, reqWhileCancelled, failStage, failReport,
                   waitedOutsideAI>>
    /\ UNCHANGED pureVars
    /\ UNCHANGED dashVars
    /\ Report(<<0>>)

\* The processFile promise resolved: handleProcessing goes on to the PDF.
HandlerResult ==
    /\ hpc = "awaitProcessFile"
    /\ wpc = "resolved"
    /\ hpc' = "awaitPdf"
    /\ tPdf' = now
    /\ processingError' = processingError
    /\ Begin(<<"pdfExport">>)
    /\ UNCHANGED <<ctlVars, wpc, wres, aiVars, outcomes, errorRecords, cancelStages,
                   fillerRuns, lateWork, reqWhileCancelled, failStage, failReport, waitedOutsideAI>>
    /\ UNCHANGED pureVars
    /\ UNCHANGED dashVars
    /\ Report(<<85, 88>>)

\* The processFile promise rejected: handleProcessing's catch block.
HandlerError ==
    /\ hpc = "awaitProcessFile"
    /\ wpc = "rejected"
    /\ Catch(wres)
    /\ UNCHANGED <<ctlVars, wpc, wres, tPdf, aiVars, begun, begunCancelled,
                   cancelStages, fillerRuns, lateWork, reqWhileCancelled,
                   waitedOutsideAI>>
    /\ UNCHANGED pureVars
    /\ UNCHANGED dashVars
    /\ NoReport

\* The 60 s timer of the race around processFile fires first.
RunTimeout ==
    /\ hpc = "awaitProcessFile"
    /\ ~Busy
    /\ now >= Ticks(RunTimeoutMs)
    /\ Catch(<<"Processing timeout after 60 seconds", "none">>)
    /\ UNCHANGED <<ctlVars, wpc, wres, tPdf, aiVars, begun, begunCancelled,
                   cancelStages, fillerRuns, lateWork, reqWhileCancelled,
                   waitedOutsideAI>>
    /\ UNCHANGED pureVars
    /\ UNCHANGED dashVars
    /\ NoReport

\* createPDFFromProcessedImage settles.
PdfSettle ==
    /\ hpc = "awaitPdf"
    /\ ~Busy
    /\ \E ok \in BOOLEAN :
         IF ok
         THEN /\ hpc' = "awaitUpload"
              /\ Report(<<92>>)
              /\ UNCHANGED <<processingError, outcomes, errorRecords, failStage, failReport>>
         ELSE /\ \E msg \in {"Generated image data is too small, likely empty",
                              "Failed to load processed image for PDF creation"} :
                   Catch(<<msg, "none">>)
              /\ NoReport
    /\ UNCHANGED <<ctlVars, wpc, wres, tPdf, aiVars, begun, begunCancelled,
                   cancelStages, fillerRuns, lateWork, reqWhileCancelled,
                   waitedOutsideAI>>
    /\ UNCHANGED pureVars
    /\ UNCHANGED dashVars

\* The 30 s timer of the race around the PDF creation fires first.
PdfTimeout ==
    /\ hpc = "awaitPdf"
    /\ ~Busy
    /\ now >= tPdf + Ticks(PdfTimeoutMs)
    /\ Catch(<<"PDF creation timeout after 30 seconds", "none">>)
    /\ UNCHANGED <<ctlVars, wpc, wres, tPdf, aiVars, begun, begunCancelled,
                   cancelStages, fillerRuns, lateWork, reqWhileCancelled,
                   waitedOutsideAI>>
    /\ UNCHANGED pureVars
    /\ UNCHANGED dashVars
    /\ NoReport

\* The storage upload and then the signed URL request settle.
UploadSettle ==
    /\ hpc \in {"awaitUpload", "awaitSignedUrl"}
    /\ ~Busy
    /\ \E ok \in BOOLEAN :
         IF ok
         THEN /\ hpc' = IF hpc = "awaitUpload" THEN "awaitSignedUrl" ELSE "awaitDbLog"
              /\ UNCHANGED <<processingError, outcomes, errorRecords, failStage, failReport>>
              /\ Report(<<IF hpc = "awaitUpload" THEN 96 ELSE 98>>)
         ELSE Catch(<<IF hpc = "awaitUpload" THEN "Failed to upload file to storage"
                      ELSE "Failed to get signed URL", "none">>) /\ NoReport
    /\ UNCHANGED <<ctlVars, wpc, wres, tPdf, aiVars, begun, begunCancelled,
                   cancelStages, fillerRuns, lateWork, reqWhileCancelled,
                   waitedOutsideAI>>
    /\ UNCHANGED pureVars
    /\ UNCHANGED dashVars

\* The metadata insert settles (its error is only logged): processor.destroy(),
\* state "completed", success toast.
Finalize ==
    /\ hpc = "awaitDbLog"
    /\ ~Busy
    /\ hpc' = "done"
    /\ token' = TokenCancel(token, "Processor destroyed")
    /\ canvasDestroyed' = TRUE
    /\ imageProcessorRef' = 0
    /\ processingState' = "completed"
    /\ outcomes' = Append(outcomes, "Completed")
    /\ UNCHANGED <<cfg, now, wpc, wres, tPdf, processingError, aiVars, begun, begunCancelled,
                   errorRecords, cancelStages, fillerRuns, lateWork,
                   reqWhileCancelled, failStage, failReport, waitedOutsideAI>>
    /\ UNCHANGED pureVars
    /\ UNCHANGED dashVars
    /\ Report(<<100>>)

\* The error-row insert of the catch block settles: cleanup of the catch block.
ErrorCleanup ==
    /\ hpc = "awaitErrLog"
    /\ ~Busy
    /\ hpc' = "done"
    /\ IF imageProcessorRef # 0
       THEN /\ token' = TokenCancel(token, "Processor destroyed")
            /\ canvasDestroyed' = TRUE
            /\ imageProcessorRef' = 0
       ELSE UNCHANGED <<token, canvasDestroyed, imageProcessorRef>>
    /\ processingState' = "validated"
    /\ UNCHANGED <<cfg, now, wpc, wres, tPdf, processingError, aiVars, histVars>>
    /\ UNCHANGED pureVars
    /\ UNCHANGED dashVars

\* ------------------------------------- ImageProcessor / ProcessingWorkflow
\* The workflow promise rejects with err.
Reject(err) ==
    /\ wpc' = "rejected"
    /\ wres' = err

\* A (new) tryAIInpainting call for area a: its first provider request.
\* base is the in-flight set the request is added to.
StartFill(a, base) ==
    /\ areaIdx' = a
    /\ attempts' = <<[prov |-> ProviderList(cfg)[1], res |-> "pending"]>>
    /\ tCall' = now
    /\ inflight' = base \cup {<<a, ProviderList(cfg)[1]>>}
    /\ reqWhileCancelled' = (reqWhileCancelled \/ token.cancelled)

\* fileProcessor.processFile settles; on success processFile and the workflow
\* go on to canvas set-up and content positioning.
ConvertSettle ==
    /\ wpc = "convert"
    /\ ~Busy
    /\ \E ok \in BOOLEAN :
         IF ~ok
         THEN /\ \E msg \in {"PDF conversion failed", "Failed to load image"} :
                   Reject(<<msg, "none">>)
              /\ UNCHANGED <<begun, begunCancelled>>
              /\ NoReport
         ELSE IF ThrowIfCancelled(token)
         THEN /\ Reject(CancelledError(token))
              /\ UNCHANGED <<begun, begunCancelled>>
              /\ NoReport
         ELSE /\ wpc' = "position"
              /\ wres' = wres
              /\ Begin(<<"position">>)
              /\ Report(<<20>>)
    /\ UNCHANGED <<ctlVars, hpc, tPdf, processingError, aiVars, outcomes, errorRecords, cancelStages,
                   fillerRuns, lateWork, reqWhileCancelled, failStage, failReport, waitedOutsideAI>>
    /\ UNCHANGED pureVars
    /\ UNCHANGED dashVars

\* Step 2 of the workflow: the cancellation check, then the outpainting
\* branch, the inpainting branch, or the plain fallback fill.
StartBleed ==
    /\ wpc = "position"
    /\ IF ThrowIfCancelled(token)
       THEN /\ Reject(CancelledError(token))
            /\ UNCHANGED <<begun, begunCancelled, aiVars, fillerRuns, reqWhileCancelled>>
            /\ NoReport
       ELSE /\ Begin(<<"bleed">>)
            /\ Report(<<40>>)
            /\ wres' = wres
            /\ IF cfg.wfRev = 2 /\ cfg.useAIOutpaint
               THEN /\ wpc' = "outBlob"
                    /\ UNCHANGED <<aiVars, fillerRuns, reqWhileCancelled>>
               ELSE IF HasAnyKey(cfg)
               THEN /\ wpc' = IF cfg.wfRev = 1 THEN "aiRace" ELSE "aiAwait"
                    /\ apc' = "area"
                    /\ tStage' = now
                    /\ controllerAborted' = FALSE
                    /\ StartFill(1, inflight)
                    /\ UNCHANGED <<lastFill, fillerRuns>>
               ELSE /\ wpc' = "bleedDone"
                    /\ fillerRuns' = fillerRuns + 1
                    /\ UNCHANGED <<aiVars, reqWhileCancelled>>
    /\ UNCHANGED <<ctlVars, hpc, tPdf, processingError, outcomes, errorRecords, cancelStages, lateWork,
                   failStage, failReport, waitedOutsideAI>>
    /\ UNCHANGED pureVars
    /\ UNCHANGED dashVars

\* processIntelligentBleed resolved while the workflow awaits it.
AIStageDone ==
    /\ wpc \in {"aiRace", "aiAwait"}
    /\ apc = "done"
    /\ wpc' = "bleedDone"
    /\ UNCHANGED <<ctlVars, hpc, wres, tPdf, processingError, aiVars, histVars>>
    /\ UNCHANGED pureVars
    /\ UNCHANGED dashVars

\* Revision 1: the 45 s timer of the race around processIntelligentBleed fires;
\* the catch block rethrows on a cancelled token, else runs the fallback fill.
StageTimeout ==
    /\ wpc = "aiRace"
    /\ apc = "area"
    /\ ~Busy
    /\ now >= tStage + Ticks(StageTimeoutMs)
    /\ IF token.cancelled
       THEN /\ Reject(<<"AI bleed processing timeout", "none">>)
            /\ UNCHANGED fillerRuns
            /\ NoReport
       ELSE /\ wpc' = "bleedDone"
            /\ wres' = wres
            /\ fillerRuns' = fillerRuns + 1
            /\ Report(<<50>>)
    /\ UNCHANGED <<ctlVars, hpc, tPdf, processingError, aiVars, begun, begunCancelled, outcomes,
                   errorRecords, cancelStages, lateWork, reqWhileCancelled, failStage, failReport,
                   waitedOutsideAI>>
    /\ UNCHANGED pureVars
    /\ UNCHANGED dashVars

\* Revision 2: the 30 s timer set before the await of processIntelligentBleed
\* fires and calls controller.abort().  The controller's signal is handed to
\* nobody, so nothing but the flag changes.  The timer is cleared when the
\* await returns.
AbortTimer ==
    /\ wpc = "aiAwait"
    /\ apc = "area"
    /\ ~Busy
    /\ ~controllerAborted
    /\ now >= tStage + Ticks(AbortTimerMs)
    /\ controllerAborted' = TRUE
    /\ UNCHANGED <<ctlVars, pcVars, apc, areaIdx, attempts, lastFill, tCall, tStage,
                   inflight, histVars>>
    /\ UNCHANGED pureVars
    /\ UNCHANGED dashVars

\* Revision 2, outpainting branch: canvas.toBlob, outpaintImage and the load
\* of the returned image settle, one after another.  Any failure reaches the
\* catch block; success replaces the canvas content.
OutpaintSettle ==
    /\ wpc \in {"outBlob", "outInvoke", "outLoad"}
    /\ ~Busy
    /\ \E ok \in BOOLEAN :
         IF ok
         THEN /\ wpc' = CASE wpc = "outBlob" -> "outInvoke"
                          [] wpc = "outInvoke" -> "outLoad"
                          [] wpc = "outLoad" -> "bleedDone"
              /\ UNCHANGED <<wres, fillerRuns>>
              /\ NoReport
         ELSE IF token.cancelled
         THEN /\ Reject(<<CASE wpc = "outBlob" -> "Failed to get canvas blob"
                            [] wpc = "outInvoke" -> "AI outpainting failed"
                            [] wpc = "outLoad" -> "image error event", "none">>)
              /\ UNCHANGED fillerRuns
              /\ NoReport
         ELSE /\ wpc' = "bleedDone"
              /\ wres' = wres
              /\ fillerRuns' = fillerRuns + 1
              /\ Report(<<50>>)
    /\ UNCHANGED <<ctlVars, hpc, tPdf, processingError, aiVars, begun, begunCancelled, outcomes,
                   errorRecords, cancelStages, lateWork, reqWhileCancelled, failStage, failReport,
                   waitedOutsideAI>>
    /\ UNCHANGED pureVars
    /\ UNCHANGED dashVars

\* Steps 3 and 4 of the workflow up to the export await: cancellation check,
\* cut lines, cancellation check, canvasToDataURL.
CutLinesAndExport ==
    /\ wpc = "bleedDone"
    /\ IF ThrowIfCancelled(token)
       THEN /\ Reject(CancelledError(token))
            /\ UNCHANGED <<begun, begunCancelled>>
            /\ NoReport
       ELSE /\ wpc' = "export"
            /\ wres' = wres
            /\ Begin(<<"cutLines", "rasterExport">>)
            /\ Report(<<80, 90>>)
    /\ UNCHANGED <<ctlVars, hpc, tPdf, processingError, aiVars, outcomes, errorRecords, cancelStages,
                   fillerRuns, lateWork, reqWhileCancelled, failStage, failReport, waitedOutsideAI>>
    /\ UNCHANGED pureVars
    /\ UNCHANGED dashVars

\* canvasToDataURL resolved: cancellation check, size validation, result.
ExportSettle ==
    /\ wpc = "export"
    /\ \E small \in BOOLEAN :
         IF ThrowIfCancelled(token)
         THEN Reject(CancelledError(token)) /\ NoReport
         ELSE IF small
         THEN Reject(<<"Generated image appears to be empty or corrupted", "none">>)
              /\ NoReport
         ELSE /\ wpc' = "resolved"
              /\ wres' = <<"result", "none">>
              /\ Report(<<100>>)
    /\ UNCHANGED <<ctlVars, hpc, tPdf, processingError, aiVars, begun, begunCancelled, outcomes,
                   errorRecords, cancelStages, fillerRuns, lateWork, reqWhileCancelled,
                   failStage, failReport, waitedOutsideAI>>
    /\ UNCHANGED pureVars
    /\ UNCHANGED dashVars

\* --------------------------------- AIBleedProcessor / AIInpaintingService
\* A loop that stops at the first area left without an image.
BreakOnFailure(a, filled) == IF filled /\ a < Len(Areas) THEN a + 1 ELSE 0

\* The for loop of processIntelligentBleed after processMarginArea of area a
\* ended, with the area filled or not (a null result, or an error caught in
\* the loop body): the index of the next area, 0 after the last one.
NextArea(a, filled) == IF a < Len(Areas) THEN a + 1 ELSE 0

\* The awaited provider attempt ended with r (a call result, or "timeout"):
\* tryAIInpainting goes on; when it returns, processMarginArea applies the
\* image if there is one and processIntelligentBleed goes to the next area or,
\* after the last one, runs the fallback fill.  base is the in-flight set.
FillAdvance(r, base) ==
    LET k == Len(attempts)
        closed == [attempts EXCEPT ![k].res = AttemptEnd(r)]
        step == FillStep(ProviderList(cfg), k, r)
    IN  IF step.next > 0
        THEN /\ attempts' = Append(closed, [prov |-> ProviderList(cfg)[step.next],
                                            res |-> "pending"])
             /\ tCall' = now
             /\ inflight' = base \cup {<<areaIdx, ProviderList(cfg)[step.next]>>}
             /\ reqWhileCancelled' = (reqWhileCancelled \/ token.cancelled)
             /\ lateWork' = lateWork \cup Late("request")
             /\ UNCHANGED <<apc, areaIdx, lastFill, fillerRuns>>
        ELSE /\ lastFill' = [attempts |-> closed, last |-> r, ret |-> step.ret,
                             onTime |-> (now <= tCall + Ticks(AI_TIMEOUT))]
             /\ IF NextArea(areaIdx, step.ret = "img") > 0
                THEN /\ StartFill(NextArea(areaIdx, step.ret = "img"), base)
                     /\ lateWork' = lateWork \cup Late("request")
                                    \cup (IF step.ret = "img" THEN Late("apply") ELSE {})
                     /\ UNCHANGED <<apc, fillerRuns>>
                ELSE /\ apc' = "done"
                     /\ attempts' = <<>>
                     /\ tCall' = 0
                     /\ inflight' = base
                     /\ fillerRuns' = fillerRuns + 1
                     /\ lateWork' = lateWork \cup Late("fill")
                                    \cup (IF step.ret = "img" THEN Late("apply") ELSE {})
                     /\ UNCHANGED <<areaIdx, reqWhileCancelled>>

Awaited(a, p) ==
    /\ apc = "area"
    /\ a = areaIdx
    /\ attempts[Len(attempts)].prov = p

\* A provider request settles.  If tryAIInpainting still awaits it, the fill
\* goes on with the call's result; a request given up after its timeout just
\* ends.
ProviderSettle ==
    /\ ~Busy
    /\ \E call \in inflight, outcome \in ProviderOutcomes :
         IF Awaited(call[1], call[2])
         THEN FillAdvance(CallResult(outcome), inflight \ {call})
         ELSE /\ inflight' = inflight \ {call}
              /\ UNCHANGED <<apc, areaIdx, attempts, lastFill, tCall, fillerRuns,
                             lateWork, reqWhileCancelled>>
    /\ UNCHANGED <<ctlVars, pcVars, tStage, controllerAborted, begun, begunCancelled, outcomes,
                   errorRecords, cancelStages, failStage, failReport, waitedOutsideAI>>
    /\ UNCHANGED pureVars
    /\ UNCHANGED dashVars
    /\ NoReport

\* The withTimeout timer of the awaited provider call fires: the request stays
\* in flight, tryAIInpainting catches the rejection.  Of the requests given up
\* earlier the model keeps the latest only (an older one ends here at the
\* latest, which it may).
CallTimeout ==
    /\ apc = "area"
    /\ ~Busy
    /\ WithTimeoutExpired(tCall, now)
    /\ FillAdvance("timeout", {<<areaIdx, attempts[Len(attempts)].prov>>})
    /\ UNCHANGED <<ctlVars, pcVars, tStage, controllerAborted, begun, begunCancelled, outcomes,
                   errorRecords, cancelStages, failStage, failReport, waitedOutsideAI>>
    /\ UNCHANGED pureVars
    /\ UNCHANGED dashVars
    /\ NoReport

\* ------------------------------------------------------------------- clock
TimerDue ==
    \/ (hpc = "awaitProcessFile" /\ now >= Ticks(RunTimeoutMs))
    \/ (hpc = "awaitPdf" /\ now >= tPdf + Ticks(PdfTimeoutMs))
    \/ (wpc = "aiRace" /\ apc = "area" /\ now >= tStage + Ticks(StageTimeoutMs))
    \/ (wpc = "aiAwait" /\ apc = "area" /\ ~controllerAborted
        /\ now >= tStage + Ticks(AbortTimerMs))
    \/ (apc = "area" /\ WithTimeoutExpired(tCall, now))

\* Some timer is armed: the 60 s run timer, the 30 s PDF timer, the 45 s
\* stage timer, the 30 s abort timer or the 15 s call timer.
Pending ==
    \/ hpc \in {"awaitProcessFile", "awaitPdf"}
    \/ apc = "area"

\* Time passes while a timer is armed and none is due.
Tick ==
    /\ ~Busy
    /\ Pending
    /\ ~TimerDue
    /\ \/ now < MaxTime
       \/ (hpc = "awaitPdf" /\ now < tPdf + Ticks(PdfTimeoutMs))
    /\ now' = now + 1
    /\ waitedOutsideAI' = (waitedOutsideAI \/ wpc = "convert")
    /\ UNCHANGED <<cfg, token, canvasDestroyed, imageProcessorRef, processingState,
                   pcVars, aiVars, begun, begunCancelled, outcomes, errorRecords,
                   cancelStages, fillerRuns, lateWork, reqWhileCancelled, failStage, failReport>>
    /\ UNCHANGED pureVars
    /\ UNCHANGED dashVars
    /\ NoReport

Next ==
    \/ StartRun
    \/ CancelProcessing
    \/ ConvertSettle
    \/ StartBleed
    \/ AIStageDone
    \/ StageTimeout
    \/ AbortTimer
    \/ OutpaintSettle
    \/ CutLinesAndExport
    \/ ExportSettle
    \/ ProviderSettle
    \/ CallTimeout
    \/ HandlerResult
    \/ HandlerError
    \/ RunTimeout
    \/ PdfSettle
    \/ PdfTimeout
    \/ UploadSettle
    \/ Finalize
    \/ ErrorCleanup
    \/ Tick

Spec == Init /\ [][Next]_vars

\* What the JavaScript event loop guarantees: a continuation whose promise
\* has settled runs, a timer that is due fires, and time passes.  Nothing is
\* assumed of the user or of the services the run waits for (rasterizer,
\* providers, PDF creation, storage, database).
Fairness ==
    /\ WF_vars(StartBleed)
    /\ WF_vars(AIStageDone)
    /\ WF_vars(CutLinesAndExport)
    /\ WF_vars(ExportSettle)
    /\ WF_vars(HandlerResult)
    /\ WF_vars(HandlerError)
    /\ WF_vars(RunTimeout)
    /\ WF_vars(PdfTimeout)
    /\ WF_vars(StageTimeout)
    /\ WF_vars(AbortTimer)
    /\ WF_vars(CallTimeout)
    /\ WF_vars(Tick)

LiveSpec == Spec /\ Fairness

\* ------------------------------------------------------ BleedFallbackFiller
\* Stand-alone calls of finalFillBleedFromEdge on small canvases.
\* Largest bleed and largest final width of those canvases, in pixels.
MaxBleed == 1
MaxFinal == 3

\* RGBA values the pixels are drawn from: opaque white, white with alpha 200,
\* red, a colour just below the near-white threshold, and transparent black.
Palette ==
    { [r |-> 255, g |-> 255, b |-> 255, a |-> 255],
      [r |-> 255, g |-> 255, b |-> 255, a |-> 200],
      [r |-> 200, g |-> 0, b |-> 0, a |-> 255],
      [r |-> 236, g |-> 236, b |-> 235, a |-> 255],
      [r |-> 0, g |-> 0, b |-> 0, a |-> 0] }

OpaqueWhite == [r |-> 255, g |-> 255, b |-> 255, a |-> 255]

CanvasWidth(d) == d.finalWidth + d.bleedPixels * 2

CanvasHeight(d) == d.finalHeight + d.bleedPixels * 2

Coords(d) == (0..(CanvasWidth(d) - 1)) \X (0..(CanvasHeight(d) - 1))

\* The coordinate test of isBleedWhite: <<x, y>> is outside the final rect.
InBleedRing(d, c) ==
    \/ c[1] < d.bleedPixels
    \/ c[1] >= d.bleedPixels + d.finalWidth
    \/ c[2] < d.bleedPixels
    \/ c[2] >= d.bleedPixels + d.finalHeight

\* r > 235 && g > 235 && b > 235
NearWhite(px) == px.r > 235 /\ px.g > 235 /\ px.b > 235

\* A whiteness test that does not look where the pixel lies.
WhiteAnywhere(d, data, c) == NearWhite(data[c]) /\ data[c].a > 200

\* isBleedWhite(x, y)
IsBleedWhite(d, data, c) ==
    InBleedRing(d, c) /\ NearWhite(data[c]) /\ data[c].a > 200

\* A content test that forgets the near-white check.
AnyVisiblePixel(px) == px.a > 24

\* The test of the contentPixels loop.
IsContent(px) == ~NearWhite(px) /\ px.a > 24

\* The final rect in the order of the contentPixels loop (rows, then columns).
FinalRectSeq(d) ==
    [n \in 1..(d.finalWidth * d.finalHeight) |->
        <<d.bleedPixels + ((n - 1) % d.finalWidth),
          d.bleedPixels + ((n - 1) \div d.finalWidth)>>]

IsContentAt(data, c) == IsContent(data[c])

\* contentPixels, in the order they are pushed.
ContentPixels(d, data) ==
    LET keep(c) == IsContentAt(data, c) IN SelectSeq(FinalRectSeq(d), keep)

Dist(c1, c2) ==
    (c1[1] - c2[1]) * (c1[1] - c2[1]) + (c1[2] - c2[2]) * (c1[2] - c2[2])

\* A search that settles for the first content pixel.
FirstIdx(cp, c) == 1

\* nearestIdx of the search loop: the first index of least distance
\* (dist < nearestDist is strict).
NearestIdx(cp, c) ==
    CHOOSE i \in 1..Len(cp) :
        \A j \in 1..Len(cp) :
            \/ Dist(cp[i], c) < Dist(cp[j], c)
            \/ (Dist(cp[i], c) = Dist(cp[j], c) /\ i <= j)

\* finalFillBleedFromEdge: the image data it leaves and its filledCount.  The
\* loop writes in place; it reads only content pixels, which lie inside the
\* final rect and are never written, and each pixel's own value before it is
\* written, so the order of the scan does not matter.
FinalFillBleedFromEdge(d, data) ==
    LET cp == ContentPixels(d, data)
        white == {c \in Coords(d) : IsBleedWhite(d, data, c)}
    IN  IF cp = <<>>
        THEN [data |-> data, filledCount |-> 0]
        ELSE [data |-> [c \in Coords(d) |->
                          IF c \in white THEN data[cp[NearestIdx(cp, c)]]
                          ELSE data[c]],
              filledCount |-> Cardinality(white)]

FillerDims ==
    [bleedPixels : 0..MaxBleed, finalWidth : 1..MaxFinal, finalHeight : {1}]

\* Canvases before the fill: any content, and a bleed ring that is opaque
\* white except for at most one pixel.
FillerBuffers(d) ==
    LET ring == {c \in Coords(d) : InBleedRing(d, c)}
        final == Coords(d) \ ring
        bases == {[c \in Coords(d) |-> IF c \in ring THEN OpaqueWhite ELSE f[c]] :
                     f \in [final -> Palette]}
    IN  bases \cup {[b EXCEPT ![c] = p] : b \in bases, c \in ring, p \in Palette}

FillerInit ==
    /\ cfg = CHOOSE c \in Configs : ~HasAnyKey(c) /\ ~c.useAIOutpaint /\ c.wfRev = 1
                                     /\ c.svcRev = "single"
    /\ RunInit
    /\ DashIdle
    /\ ppc = "canvas"
    /\ dims \in FillerDims
    /\ buffer0 \in FillerBuffers(dims)
    /\ buffer = buffer0
    /\ filledCount = 0
    /\ marginAreas = <<>>
    /\ params = <<>>
    /\ canvasDims = <<>>
    /\ exportIn = <<>>
    /\ exportOut = <<>>
    /\ maskRequests = <<>>

\* BleedFallbackFiller.finalFillBleedFromEdge(ctx, ...) on the canvas.
FinalFill ==
    /\ ppc = "canvas"
    /\ ppc' = "filled"
    /\ buffer' = FinalFillBleedFromEdge(dims, buffer).data
    /\ filledCount' = FinalFillBleedFromEdge(dims, buffer).filledCount
    /\ UNCHANGED <<ctlVars, pcVars, aiVars, histVars, dashVars, dims, buffer0, marginAreas,
                   params, canvasDims, exportIn, exportOut, maskRequests>>

\* A second call on the canvas the first call left.
FinalFillAgain ==
    /\ ppc = "filled"
    /\ ppc' = "refilled"
    /\ buffer0' = buffer
    /\ buffer' = FinalFillBleedFromEdge(dims, buffer).data
    /\ filledCount' = FinalFillBleedFromEdge(dims, buffer).filledCount
    /\ UNCHANGED <<ctlVars, pcVars, aiVars, histVars, dashVars, dims, marginAreas, params,
                   canvasDims, exportIn, exportOut, maskRequests>>

FillerNext ==
    \/ FinalFill
    \/ FinalFillAgain

FillerSpec == FillerInit /\ [][FillerNext]_vars

\* ------------------------------------------------------ MarginAreaExtractor
\* Stand-alone calls of extractAllBleedMarginAreas.
\* Largest bleed and largest small final size in pixels, and one final size
\* above 360, where a third of it exceeds the 120 pixel context slice.
MaxGeoBleed == 2
MaxGeoFinal == 5
LargeFinal == 363

Max2(a, b) == IF a > b THEN a ELSE b

Min2(a, b) == IF a < b THEN a ELSE b

\* CONTEXT_SLICE_PIXELS
ContextSlicePixels(d) == Max2(120, Min2(d.finalWidth, d.finalHeight) \div 3)

\* Side areas as tall as the whole canvas.
SideAreaFullHeight(d) == CanvasHeight(d)

\* height of the left and right areas
SideAreaHeight(d) == d.finalHeight

\* extractAllBleedMarginAreas
ExtractAllBleedMarginAreas(d) ==
    LET cs == ContextSlicePixels(d)
        b == d.bleedPixels
    IN  << [type |-> "top", x |-> 0, y |-> 0,
            width |-> CanvasWidth(d), height |-> b,
            contextX |-> 0, contextY |-> b,
            contextWidth |-> CanvasWidth(d),
            contextHeight |-> Min2(cs, d.finalHeight)],
           [type |-> "bottom", x |-> 0, y |-> b + d.finalHeight,
            width |-> CanvasWidth(d), height |-> b,
            contextX |-> 0, contextY |-> b + d.finalHeight - Min2(cs, d.finalHeight),
            contextWidth |-> CanvasWidth(d),
            contextHeight |-> Min2(cs, d.finalHeight)],
           [type |-> "left", x |-> 0, y |-> b,
            width |-> b, height |-> SideAreaHeight(d),
            contextX |-> b, contextY |-> b,
            contextWidth |-> Min2(cs, d.finalWidth),
            contextHeight |-> d.finalHeight],
           [type |-> "right", x |-> b + d.finalWidth, y |-> b,
            width |-> b, height |-> SideAreaHeight(d),
            contextX |-> b + d.finalWidth - Min2(cs, d.finalWidth), contextY |-> b,
            contextWidth |-> Min2(cs, d.finalWidth),
            contextHeight |-> d.finalHeight] >>

GeoSizes == (1..MaxGeoFinal) \cup {LargeFinal}

ExtractorInit ==
    /\ cfg = CHOOSE c \in Configs : ~HasAnyKey(c) /\ ~c.useAIOutpaint /\ c.wfRev = 1
                                     /\ c.svcRev = "single"
    /\ RunInit
    /\ DashIdle
    /\ ppc = "geometry"
    /\ dims \in [bleedPixels : 0..MaxGeoBleed, finalWidth : GeoSizes,
                 finalHeight : GeoSizes]
    /\ buffer0 = <<>>
    /\ buffer = <<>>
    /\ filledCount = 0
    /\ marginAreas = <<>>
    /\ params = <<>>
    /\ canvasDims = <<>>
    /\ exportIn = <<>>
    /\ exportOut = <<>>
    /\ maskRequests = <<>>

\* MarginAreaExtractor.extractAllBleedMarginAreas(bleedPixels, finalWidth, finalHeight)
ExtractAreas ==
    /\ ppc = "geometry"
    /\ ppc' = "extracted"
    /\ marginAreas' = ExtractAllBleedMarginAreas(dims)
    /\ UNCHANGED <<ctlVars, pcVars, aiVars, histVars, dashVars, dims, buffer0, buffer,
                   filledCount, params, canvasDims, exportIn, exportOut, maskRequests>>

\* Math.round(v * scale) of processMarginArea, where scale is
\* min(maxDimension / m, 1) and m the larger side of the summed sizes.
MaxDimension == 512

RoundScaled(v, m) ==
    IF m > MaxDimension THEN (2 * v * MaxDimension + m) \div (2 * m) ELSE v

\* processMarginArea up to the tryAIInpainting call: the context canvas, the
\* source rect drawImage stretches over it, and the white rect of the mask.
MaskRequest(a) ==
    LET m == Max2(a.width + a.contextWidth, a.height + a.contextHeight)
        sourceX == Min2(a.x, a.contextX)
        sourceY == Min2(a.y, a.contextY)
    IN  [canvasWidth |-> RoundScaled(a.width + a.contextWidth, m),
         canvasHeight |-> RoundScaled(a.height + a.contextHeight, m),
         sourceX |-> sourceX,
         sourceY |-> sourceY,
         sourceWidth |-> Max2(a.x + a.width, a.contextX + a.contextWidth) - sourceX,
         sourceHeight |-> Max2(a.y + a.height, a.contextY + a.contextHeight) - sourceY,
         fillX |-> RoundScaled(a.x - sourceX, m),
         fillY |-> RoundScaled(a.y - sourceY, m),
         fillWidth |-> RoundScaled(a.width, m),
         fillHeight |-> RoundScaled(a.height, m)]

\* processMarginArea builds the context image and the mask of each area.
BuildMasks ==
    /\ ppc = "extracted"
    /\ ppc' = "masked"
    /\ maskRequests' = [i \in 1..Len(marginAreas) |-> MaskRequest(marginAreas[i])]
    /\ UNCHANGED <<ctlVars, pcVars, aiVars, histVars, dashVars, dims, buffer0, buffer,
                   filledCount, marginAreas, params, canvasDims, exportIn, exportOut>>

ExtractorNext ==
    \/ ExtractAreas
    \/ BuildMasks

ExtractorSpec == ExtractorInit /\ [][ExtractorNext]_vars

\* -------------------------------------------------------- canvas dimensions
\* Stand-alone computations of the canvas size from the parameters.
\* Largest final size and largest bleed margin, in mm.
MaxMm == 10
MaxBleedMm == 3

\* DPI of processImageToPDF.
DPI == 300

\* Math.round(n / 254) for n >= 0: the nearest integer, halves up.
RoundDiv254(n) == (2 * n + 254) \div 508

\* mmToPixels: Math.round((mm * dpi) / 25.4)
MmToPixels(mm, dpi) == RoundDiv254(mm * dpi * 10)

\* Steps "Calculate dimensions with bleed" of processImageWithNewWorkflow and
\* the finalDimensions of the ProcessingResult it returns.
WorkflowDims(p) ==
    LET finalWidth == MmToPixels(p.width, p.dpi)
        finalHeight == MmToPixels(p.height, p.dpi)
        bleedPixels == MmToPixels(p.bleedMargin, p.dpi)
        canvasWidth == finalWidth + (bleedPixels * 2)
        canvasHeight == finalHeight + (bleedPixels * 2)
    IN  [width |-> canvasWidth, height |-> canvasHeight,
         result |-> [width |-> canvasWidth, height |-> canvasHeight]]

\* processImageToPDF: Math.round(totalWidthMm * MM_TO_INCH * DPI); it returns
\* a PDF blob, no ProcessingResult.
ProcessImageToPDFDims(p) ==
    LET totalWidthMm == p.width + (p.bleedMargin * 2)
        totalHeightMm == p.height + (p.bleedMargin * 2)
    IN  [width |-> RoundDiv254(totalWidthMm * DPI * 10),
         height |-> RoundDiv254(totalHeightMm * DPI * 10),
         result |-> <<>>]

CanvasInit ==
    /\ cfg = CHOOSE c \in Configs : ~HasAnyKey(c) /\ ~c.useAIOutpaint /\ c.wfRev = 1
                                     /\ c.svcRev = "single"
    /\ RunInit
    /\ DashIdle
    /\ ppc = "params"
    /\ dims = [bleedPixels |-> 0, finalWidth |-> 0, finalHeight |-> 0]
    /\ buffer0 = <<>>
    /\ buffer = <<>>
    /\ filledCount = 0
    /\ marginAreas = <<>>
    /\ params \in [width : 1..MaxMm, height : 1..MaxMm, bleedMargin : 0..MaxBleedMm,
                   dpi : {72, DPI}]
    /\ canvasDims = <<>>
    /\ exportIn = <<>>
    /\ exportOut = <<>>
    /\ maskRequests = <<>>

\* processImageWithNewWorkflow sets up its canvas.
WorkflowCanvas ==
    /\ ppc = "params"
    /\ ppc' = "workflowCanvas"
    /\ canvasDims' = WorkflowDims(params)
    /\ UNCHANGED <<ctlVars, pcVars, aiVars, histVars, dashVars, dims, buffer0, buffer,
                   filledCount, marginAreas, params, exportIn, exportOut, maskRequests>>

\* processImageToPDF sets up its canvas (its DPI is fixed).
ProcessImageToPDF ==
    /\ ppc = "params"
    /\ params.dpi = DPI
    /\ ppc' = "pdfCanvas"
    /\ canvasDims' = ProcessImageToPDFDims(params)
    /\ UNCHANGED <<ctlVars, pcVars, aiVars, histVars, dashVars, dims, buffer0, buffer,
                   filledCount, marginAreas, params, exportIn, exportOut, maskRequests>>

CanvasNext ==
    \/ WorkflowCanvas
    \/ ProcessImageToPDF

CanvasSpec == CanvasInit /\ [][CanvasNext]_vars

\* ----------------------------------------------------------------- exports
MinImageBytes == 725
MaxImageBytes == 1005

\* The size below which an export is taken for empty or corrupted.
SanityThreshold == 1000

\* Lengths of "data:image/png;base64," and "data:image/jpeg;base64,".
PngUrlPrefix == 22
JpegUrlPrefix == 23

\* Bytes of the fixed text of pdfContent and pdfEnd.
WrapperFixedBytes == 663

\* canvas.toDataURL: the prefix, then the base64 text of the n image bytes.
DataUrlLength(prefix, n) == prefix + 4 * ((n + 2) \div 3)

\* Length of the decimal text of n.
RECURSIVE Digits(_)
Digits(n) == IF n < 10 THEN 1 ELSE 1 + Digits(n \div 10)

\* pdfBlob.size: the wrapper text with its interpolated fields (fieldChars for
\* the page and image sizes, then imageBlob.size and the startxref offset)
\* around the n image bytes.
PdfBlobSize(n, fieldChars) ==
    WrapperFixedBytes + fieldChars + Digits(n) + Digits(800 + n) + n

\* STEP 4 of processImageWithNewWorkflow, for a canvas whose PNG has n bytes:
\* the data URL is validated by its length and returned in the result.
ExportHighResolution(n) ==
    LET processedImageUrl == DataUrlLength(PngUrlPrefix, n)
    IN  IF processedImageUrl < SanityThreshold
        THEN [status |-> "rejected", size |-> processedImageUrl]
        ELSE [status |-> "resolved", size |-> processedImageUrl]

\* createPDFFromProcessedImage once the processed image has loaded; in.bytes is
\* the size of the JPEG of the export canvas. An exception in the wrapper
\* construction, the size check of the wrapper included, is caught and answered
\* with the image blob alone.
CreatePDFFromProcessedImage(in) ==
    LET imageDataUrl == DataUrlLength(JpegUrlPrefix, in.bytes)
        pdfBlob == PdfBlobSize(in.bytes, in.fieldChars)
        fallbackBlob == in.bytes
    IN  IF imageDataUrl < SanityThreshold
        THEN [status |-> "rejected", size |-> imageDataUrl]
        ELSE IF ~in.wrapperThrows /\ ~(pdfBlob < SanityThreshold)
        THEN [status |-> "resolved", size |-> pdfBlob]
        ELSE IF in.fallbackThrows
        THEN [status |-> "rejected", size |-> fallbackBlob]
        ELSE [status |-> "resolved", size |-> fallbackBlob]

\* The page and image sizes take at least four texts of the form 0.00 and two
\* pixel counts of one digit.
ExportInputs ==
    [bytes : MinImageBytes..MaxImageBytes, fieldChars : {18, 30},
     wrapperThrows : BOOLEAN, fallbackThrows : BOOLEAN]

ExporterInit ==
    /\ cfg = CHOOSE c \in Configs : ~HasAnyKey(c) /\ ~c.useAIOutpaint /\ c.wfRev = 1
                                     /\ c.svcRev = "single"
    /\ RunInit
    /\ DashIdle
    /\ ppc = "export"
    /\ dims = [bleedPixels |-> 0, finalWidth |-> 0, finalHeight |-> 0]
    /\ buffer0 = <<>>
    /\ buffer = <<>>
    /\ filledCount = 0
    /\ marginAreas = <<>>
    /\ params = <<>>
    /\ canvasDims = <<>>
    /\ exportIn \in ExportInputs
    /\ exportOut = <<>>
    /\ maskRequests = <<>>

\* The workflow exports its canvas.
RasterExport ==
    /\ ppc = "export"
    /\ ppc' = "rasterExported"
    /\ exportOut' = ExportHighResolution(exportIn.bytes)
    /\ UNCHANGED <<ctlVars, pcVars, aiVars, histVars, dashVars, dims, buffer0, buffer,
                   filledCount, marginAreas, params, canvasDims, exportIn, maskRequests>>

\* The handler has the document built from the processed image.
CreatePDF ==
    /\ ppc = "export"
    /\ ppc' = "pdfCreated"
    /\ exportOut' = CreatePDFFromProcessedImage(exportIn)
    /\ UNCHANGED <<ctlVars, pcVars, aiVars, histVars, dashVars, dims, buffer0, buffer,
                   filledCount, marginAreas, params, canvasDims, exportIn, maskRequests>>

ExporterNext ==
    \/ RasterExport
    \/ CreatePDF

ExporterSpec == ExporterInit /\ [][ExporterNext]_vars

\* ------------------------------------------- dashboard with several runs
\* The hook state of useProcessing (processingState, imageProcessorRef) is
\* shared by all calls of handleProcessing.  Each call creates its own
\* ImageProcessor; the workflow behind processFile is summarised by how its
\* promise settles.
\* Number of runs the user may start.
MaxRuns == 2

Runs == 1..MaxRuns

NewRun == [hpc |-> "idle", token |-> NewToken, destroyed |-> FALSE]

\* ImageProcessor.cancel(reason) on the processor of run p.
ProcessorCancel(rs, p, reason) ==
    [rs EXCEPT ![p].token = TokenCancel(rs[p].token, reason)]

\* ImageProcessor.destroy() on the processor of run p.
ProcessorDestroy(rs, p) ==
    [rs EXCEPT ![p].token = TokenCancel(rs[p].token, "Processor destroyed"),
               ![p].destroyed = TRUE]

\* Everything of the single-run model stays as it is.
DashFrame ==
    UNCHANGED <<cfg, now, token, canvasDestroyed, pcVars, aiVars, histVars, pureVars>>

\* A validated file; the validation found errors or not.
DashboardInit ==
    /\ cfg = CHOOSE c \in Configs : ~HasAnyKey(c) /\ ~c.useAIOutpaint /\ c.wfRev = 1
                                     /\ c.svcRev = "single"
    /\ RunInit
    /\ PureIdle
    /\ runs = [r \in Runs |-> NewRun]
    /\ cleanups = {}
    /\ validationResult \in {"valid", "invalid"}

\* The controls that call handleProcessing: the process button of
\* ProcessingPanel (disabled unless processingState is "validated") and the
\* approve button of ValidationPanel (shown whenever the validation result
\* is valid).
CanStart(control) ==
    IF control = "ProcessingPanel" THEN processingState = "validated"
    ELSE validationResult = "valid"

\* handleProcessing up to its await of processFile, for the next run r.
HandleProcessing(r) ==
    /\ runs[r].hpc = "idle"
    /\ \A q \in Runs : q < r => runs[q].hpc # "idle"
    /\ \E control \in {"ProcessingPanel", "ValidationPanel"} : CanStart(control)
    /\ processingState' = "processing"
    /\ imageProcessorRef' = r
    /\ runs' = [runs EXCEPT ![r].hpc = "awaitProcessFile"]
    /\ UNCHANGED <<cleanups, validationResult>>
    /\ DashFrame

\* handleCancelProcessing; the cancel button is shown while processing.
HandleCancelProcessing ==
    /\ processingState = "processing"
    /\ IF imageProcessorRef # 0
       THEN /\ runs' = ProcessorCancel(runs, imageProcessorRef, "User cancelled")
            /\ imageProcessorRef' = 0
       ELSE UNCHANGED <<runs, imageProcessorRef>>
    /\ processingState' = "validated"
    /\ UNCHANGED <<cleanups, validationResult>>
    /\ DashFrame

\* The race around processFile of run r settles: with the result (never on a
\* cancelled token), with the cancellation error (only on a cancelled token,
\* and the catch block then just returns), or with another error (a failed
\* conversion or export, or the 60 s timer).
ProcessFileSettles(r) ==
    /\ runs[r].hpc = "awaitProcessFile"
    /\ \E how \in {"result", "cancelled", "error"} :
         /\ how = "result" => ~runs[r].token.cancelled
         /\ how = "cancelled" => runs[r].token.cancelled
         /\ runs' = [runs EXCEPT ![r].hpc =
                        CASE how = "result" -> "awaitPdf"
                          [] how = "cancelled" -> "done"
                          [] how = "error" -> "awaitErrLog"]
    /\ UNCHANGED <<imageProcessorRef, processingState, cleanups, validationResult>>
    /\ DashFrame

\* The PDF creation, the upload or the signed URL request of run r settles.
ExportStepSettles(r) ==
    /\ runs[r].hpc \in {"awaitPdf", "awaitUpload", "awaitSignedUrl"}
    /\ \E ok \in BOOLEAN :
         runs' = [runs EXCEPT ![r].hpc =
                     IF ~ok THEN "awaitErrLog"
                     ELSE CASE runs[r].hpc = "awaitPdf" -> "awaitUpload"
                            [] runs[r].hpc = "awaitUpload" -> "awaitSignedUrl"
                            [] runs[r].hpc = "awaitSignedUrl" -> "awaitDbLog"]
    /\ UNCHANGED <<imageProcessorRef, processingState, cleanups, validationResult>>
    /\ DashFrame

\* Step 7 of run r: processor.destroy() on its own processor, the shared
\* reference cleared, state "completed".
FinalizeRun(r) ==
    /\ runs[r].hpc = "awaitDbLog"
    /\ runs' = [ProcessorDestroy(runs, r) EXCEPT ![r].hpc = "done"]
    /\ imageProcessorRef' = 0
    /\ processingState' = "completed"
    /\ UNCHANGED <<cleanups, validationResult>>
    /\ DashFrame

\* The cleanup of run r's catch block, after the error row was logged:
\* whatever processor the shared reference holds is destroyed.
CatchCleanup(r) ==
    /\ runs[r].hpc = "awaitErrLog"
    /\ IF imageProcessorRef # 0
       THEN /\ runs' = [ProcessorDestroy(runs, imageProcessorRef) EXCEPT ![r].hpc = "done"]
            /\ cleanups' = cleanups \cup {<<r, imageProcessorRef>>}
            /\ imageProcessorRef' = 0
       ELSE /\ runs' = [runs EXCEPT ![r].hpc = "done"]
            /\ UNCHANGED <<cleanups, imageProcessorRef>>
    /\ processingState' = "validated"
    /\ UNCHANGED validationResult
    /\ DashFrame

DashboardNext ==
    \/ \E r \in Runs : HandleProcessing(r)
    \/ HandleCancelProcessing
    \/ \E r \in Runs : ProcessFileSettles(r)
    \/ \E r \in Runs : ExportStepSettles(r)
    \/ \E r \in Runs : FinalizeRun(r)
    \/ \E r \in Runs : CatchCleanup(r)

DashboardSpec == DashboardInit /\ [][DashboardNext]_vars

\* ------------------------------------------------------------- properties
\* Some report in outcomes[j] follows a "Cancelled" report.
ReportedAfterCancelled(what) ==
    \E i, j \in 1..Len(outcomes) :
        i < j /\ outcomes[i] = "Cancelled" /\ outcomes[j] = what

\* C1: no stage begins on a cancelled token: once the token is cancelled
\* before stage N begins, neither stage N nor any later stage is started.
C1_NoStageAfterCancel == begunCancelled = {}

\* The user cancelled after some but not all stages had begun, the workflow
\* stopped at its next cancellation check and no further stage began.
C1_Witness ==
    /\ cancelStages \in 1..5
    /\ wpc = "rejected"
    /\ MessageIncludesCancelled(wres)
    /\ Len(begun) = cancelStages

\* C2: a run cancelled during bleed filling (before cut-line rendering begins)
\* is not reported as a failure afterwards: no failure notification and no
\* error record follows the cancellation.
C2_CancelledNeverFailed ==
    cancelStages = 3 => ~ReportedAfterCancelled("Failed")

\* C3: every run that has reached cut-line rendering has executed
\* BleedFallbackFiller, whatever the AI stage did and in either branch.
C3_FallbackAlwaysRuns == CutLinesBegun => fillerRuns > 0

\* C4: a run of the inpainting branch that was never cancelled, and whose
\* time was spent in the AI stage only, is never reported Failed while it is
\* in the bleed stage, however many provider calls fail or time out.
C4_AINeverFails ==
    (cancelStages = -1 /\ ~waitedOutsideAI /\ ~cfg.useAIOutpaint) =>
        failStage # "bleed"

\* C5: a run reports at most one terminal outcome.
C5_OneOutcome == Len(outcomes) <= 1

\* C6: once cut-line rendering has begun, the bleed stage does nothing more:
\* no provider request, no application of a result, no fill write.
C6_NoLateBleedWork == lateWork = {}

\* C7: tryAIInpainting returns an image or null and never throws; every
\* failure, rejection or timeout of its last attempt makes it return null.
C7_FillNeverThrows ==
    /\ lastFill.ret \in {"none", "img", "null"}
    /\ lastFill.last \in {"null", "reject", "timeout"} => lastFill.ret = "null"

\* A fill request whose provider call rejected (image load failed) returned
\* null.
C7_Witness == lastFill.last = "reject" /\ lastFill.ret = "null"

\* C8 as stated: whenever a provider call of a fill request has timed out,
\* the request has returned null at that moment (the timed-out call is the
\* last attempt of a finished request).
C8_TimeoutReturnsNull ==
    /\ \A i \in 1..Len(attempts) : attempts[i].res # "timeout"
    /\ \A i \in 1..Len(lastFill.attempts) :
         lastFill.attempts[i].res = "timeout" =>
             (i = Len(lastFill.attempts) /\ lastFill.ret = "null")

\* C8, amended: an awaited provider call is given up when its timeout
\* expires, so the fill request never waits on one call beyond the timeout;
\* it returns null at that moment if that was its last provider (and
\* otherwise goes on to the next provider).
C8_TimeoutBoundsCall ==
    /\ apc = "area" => now <= tCall + Ticks(AI_TIMEOUT)
    /\ lastFill.last = "timeout" => (lastFill.ret = "null" /\ lastFill.onTime)

\* The call of the last provider timed out and the request returned null.
C8_Witness ==
    /\ lastFill.last = "timeout"
    /\ lastFill.ret = "null"
    /\ now >= Ticks(AI_TIMEOUT)

\* Priority rank of a provider: HuggingFace first, then OpenAI.
Rank(p) == IF p = "huggingface" THEN 1 ELSE 2

Configured(p) == IF p = "huggingface" THEN cfg.hasHuggingFace ELSE cfg.hasOpenAI

\* The attempts s of one fill request follow the priority order.
InPriorityOrder(s) ==
    /\ \A i, j \in 1..Len(s) : i < j => Rank(s[i].prov) < Rank(s[j].prov)
    /\ \A i \in 1..Len(s) :
         /\ Configured(s[i].prov)
         /\ \A p \in {"huggingface", "openai"} :
              (Configured(p) /\ Rank(p) < Rank(s[i].prov)) =>
                  \E j \in 1..(i - 1) :
                      s[j].prov = p /\ s[j].res \in {"failed", "timeout"}
         /\ s[i].res = "img" => i = Len(s)

\* C9: within one fill request the providers are attempted in priority
\* order, each at most once, a provider only after every configured provider
\* of higher priority has failed; the first image ends the request.
C9_ProviderOrder ==
    /\ InPriorityOrder(attempts)
    /\ InPriorityOrder(lastFill.attempts)
    /\ lastFill.ret = "img" <=>
         (lastFill.attempts # <<>>
          /\ lastFill.attempts[Len(lastFill.attempts)].res = "img")

\* HuggingFace failed, OpenAI was attempted next and its image was returned.
C9_Witness ==
    /\ Len(lastFill.attempts) = 2
    /\ lastFill.attempts[1].res \in {"failed", "timeout"}
    /\ lastFill.ret = "img"

\* C10: no provider request is started once the token is cancelled.
C10_NoRequestAfterCancel == ~reqWhileCancelled

\* C11: the provider requests in flight at any moment all belong to one
\* margin area: no request of an area is started while a request of another
\* area is still in flight.
C11_OneAreaInFlight == \A c1, c2 \in inflight : c1[1] = c2[1]

\* C12: after the fill of a canvas that had at least one content pixel, no
\* pixel of the bleed ring is near-white (R, G and B each above 235).
C12_NoNearWhiteLeft ==
    (ppc = "filled" /\ ContentPixels(dims, buffer0) # <<>>) =>
        \A c \in Coords(dims) : InBleedRing(dims, c) => ~NearWhite(buffer[c])

\* C13: a second fill of the canvas left by a first fill copies no pixel and
\* leaves the canvas as it was.
C13_Idempotent ==
    ppc = "refilled" => (filledCount = 0 /\ buffer = buffer0)

\* The first fill copied pixels (the second call ran on a filled canvas).
C13_Witness ==
    /\ ppc = "refilled"
    /\ \E c \in Coords(dims) : buffer[c] # OpaqueWhite /\ InBleedRing(dims, c)
    /\ \A c \in Coords(dims) : InBleedRing(dims, c) => ~NearWhite(buffer[c])
    /\ dims.bleedPixels > 0

\* C14: when handleProcessing has ended (completed, failed or cancelled) the
\* run's canvas has been destroyed.
C14_CanvasReleased == hpc = "done" => canvasDestroyed

\* C15: in a run the user does not cancel, no reported percent value is
\* below the value reported before it.
C15_ProgressMonotone == cancelStages = -1 => ~progressDropped

\* Pixel c lies in the target rectangle of area m.
InTarget(m, c) ==
    /\ m.x <= c[1] /\ c[1] < m.x + m.width
    /\ m.y <= c[2] /\ c[2] < m.y + m.height

\* C16: the extractor returns the four areas top, bottom, left, right; every
\* canvas pixel outside the final rect lies in exactly one target rectangle
\* and no pixel of the final rect lies in any.
C16_TargetsTileRing ==
    ppc = "extracted" =>
        /\ Len(marginAreas) = 4
        /\ [i \in 1..4 |-> marginAreas[i].type] = Areas
        /\ \A c \in Coords(dims) :
             Cardinality({i \in 1..4 : InTarget(marginAreas[i], c)})
                 = IF InBleedRing(dims, c) THEN 1 ELSE 0

\* Areas were extracted for a canvas that has a bleed ring with corners.
C16_Witness ==
    /\ ppc = "extracted"
    /\ dims.bleedPixels > 1
    /\ dims.finalWidth > 1
    /\ InTarget(marginAreas[1], <<0, 0>>)

\* C17: the context rectangle of each of the four areas lies inside the final
\* rect [bleedPx, bleedPx + finalW) x [bleedPx, bleedPx + finalH).
C17_ContextInsideFinal ==
    ppc = "extracted" =>
        \A i \in 1..Len(marginAreas) :
            /\ marginAreas[i].contextX >= dims.bleedPixels
            /\ marginAreas[i].contextY >= dims.bleedPixels
            /\ marginAreas[i].contextX + marginAreas[i].contextWidth
                   <= dims.bleedPixels + dims.finalWidth
            /\ marginAreas[i].contextY + marginAreas[i].contextHeight
                   <= dims.bleedPixels + dims.finalHeight

\* round(mm * dpi / 25.4), from the quotient and remainder of the division.
RoundedPx(mm, dpi) ==
    LET n == mm * dpi * 10
    IN  IF 2 * (n % 254) >= 254 THEN (n \div 254) + 1 ELSE n \div 254

\* C18: a canvas set up for the parameters is round(finalWidthMm dpi / 25.4)
\* + 2 round(bleedMarginMm dpi / 25.4) wide, likewise high, and a result
\* reports these dimensions.
C18_CanvasDimensions ==
    canvasDims # <<>> =>
        LET w == RoundedPx(params.width, params.dpi)
                   + 2 * RoundedPx(params.bleedMargin, params.dpi)
            h == RoundedPx(params.height, params.dpi)
                   + 2 * RoundedPx(params.bleedMargin, params.dpi)
        IN  /\ canvasDims.width = w
            /\ canvasDims.height = h
            /\ canvasDims.result # <<>> =>
                 (canvasDims.result.width = w /\ canvasDims.result.height = h)

\* C19: with no API key stored the bleed stage sends no request to any AI
\* service (neither a fill request nor an outpainting request) and never
\* enters the AI bleed processor.
C19_NoProviderNoRequest ==
    (~cfg.hasHuggingFace /\ ~cfg.hasOpenAI) =>
        /\ apc = "none"
        /\ inflight = {}
        /\ attempts = <<>>
        /\ wpc \notin {"outInvoke", "outLoad"}

\* C20: no export hands back as its result an output smaller than the sanity
\* threshold: a settled export with fewer than 1000 characters or bytes was
\* rejected.
C20_SmallExportRejected ==
    exportOut # <<>> =>
        (exportOut.size < SanityThreshold => exportOut.status = "rejected")

\* Messages of the errors of source conversion and of the two exports, and
\* the stage each comes from.
ConversionErrors == {"PDF conversion failed", "Failed to load image"}

ExportErrors ==
    {"Generated image appears to be empty or corrupted",
     "Generated image data is too small, likely empty",
     "Failed to load processed image for PDF creation"}

StageOfError(msg) ==
    IF msg \in ConversionErrors THEN "convert"
    ELSE IF msg = "Generated image appears to be empty or corrupted" THEN "rasterExport"
    ELSE "pdfExport"

\* The toast title that names a stage, if there is one.
TitleOfStage(stage) == IF stage = "convert" THEN "PDF Conversion Failed" ELSE "none"

\* C21: when the run is reported Failed with an error of source conversion or
\* of an export, no stage has begun after the failing one, and the report
\* names the failing stage, in the step prefix of the logged message or in
\* the title shown to the user.
C21_FatalAndTagged ==
    (failReport.title # "none" /\ processingError \in ConversionErrors \cup ExportErrors) =>
        /\ CurrentStage = StageOfError(processingError)
        /\ Len(begun) = failReport.stages
        /\ \/ failReport.prefix = StageOfError(processingError)
           \/ failReport.title = TitleOfStage(StageOfError(processingError))

\* C22: no step of a run takes its token from cancelled back to not cancelled;
\* a second cancel, by the user or through destroy, leaves it cancelled.
C22_StaysCancelled == [][token.cancelled => token'.cancelled]_vars

\* The user cancelled, and later destroy() cancelled the same token again.
C22_Witness ==
    /\ cancelStages >= 0
    /\ token.cancelled
    /\ token.reason = "Processor destroyed"

\* C23: while processIntelligentBleed runs, the area in work changes only to
\* the next one of top, bottom, left, right, whatever the fill of the area
\* gave, and the loop ends only after the last area.
C23_AreasInOrder ==
    [][apc = "area" =>
          /\ areaIdx' \in {areaIdx, areaIdx + 1}
          /\ (apc' # "area" => areaIdx = Len(Areas))
          /\ (areaIdx' = areaIdx + 1 => apc' = "area")]_vars

\* The fill of the left area timed out and the right area is being attempted.
C23_Witness ==
    /\ apc = "area"
    /\ areaIdx = Len(Areas)
    /\ lastFill.last = "timeout"
    /\ lastFill.ret = "null"

\* C24: after a fill, every ring pixel that was filled (it was near-white and
\* opaque before) holds the value some content pixel had, and no content
\* pixel is nearer to it than that one.
C24_NearestContentCopied ==
    ppc = "filled" =>
        LET cp == ContentPixels(dims, buffer0)
        IN  \A c \in Coords(dims) :
              (cp # <<>> /\ IsBleedWhite(dims, buffer0, c)) =>
                  \E i \in 1..Len(cp) :
                      /\ buffer[c] = buffer0[cp[i]]
                      /\ \A j \in 1..Len(cp) : Dist(cp[i], c) <= Dist(cp[j], c)

\* A fill with content pixels of different colours, where some ring pixel
\* received another colour than that of the first content pixel.
C24_Witness ==
    /\ ppc = "filled"
    /\ filledCount > 0
    /\ Len(ContentPixels(dims, buffer0)) >= 2
    /\ \E c \in Coords(dims) :
         /\ IsBleedWhite(dims, buffer0, c)
         /\ buffer[c] # buffer0[ContentPixels(dims, buffer0)[1]]

\* C28: a fill leaves every pixel of the final rect and every ring pixel that
\* was not near-white before it with the value it had.
C28_OnlyWhiteRingChanges ==
    ppc = "filled" =>
        \A c \in Coords(dims) :
            (~InBleedRing(dims, c) \/ ~NearWhite(buffer0[c])) => buffer[c] = buffer0[c]

\* A fill that wrote ring pixels, on a canvas with a coloured ring pixel and
\* with a white pixel inside the final rect.
C28_Witness ==
    /\ ppc = "filled"
    /\ filledCount > 0
    /\ buffer # buffer0
    /\ \E c \in Coords(dims) : InBleedRing(dims, c) /\ ~NearWhite(buffer0[c])
    /\ \E c \in Coords(dims) : ~InBleedRing(dims, c) /\ buffer0[c] = OpaqueWhite

\* Columns (rows) of a context image of n pixels that show source columns
\* (rows) from..from+len-1 when drawImage stretches the source extent
\* src0..src0+srcLen-1 over the n pixels: those whose centre falls in there.
Showing(n, src0, srcLen, from, len) ==
    {p \in 0..(n - 1) :
        /\ (from - src0) * 2 * n <= (2 * p + 1) * srcLen
        /\ (2 * p + 1) * srcLen < (from - src0 + len) * 2 * n}

\* The pixels of columns cs and rows rs are those of columns ct and rows rt.
SameRegion(cs, rs, ct, rt) ==
    \/ (cs = {} \/ rs = {}) /\ (ct = {} \/ rt = {})
    \/ cs = ct /\ rs = rt

\* C25: for each of the four areas the white rect of the mask holds exactly
\* the pixels of the context image that show the area's target rect; every
\* other pixel of the mask is black.
C25_MaskCoversTarget ==
    ppc = "masked" =>
        \A i \in 1..Len(marginAreas) :
            LET a == marginAreas[i]
                q == maskRequests[i]
            IN  SameRegion(
                    (q.fillX..(q.fillX + q.fillWidth - 1)) \cap (0..(q.canvasWidth - 1)),
                    (q.fillY..(q.fillY + q.fillHeight - 1)) \cap (0..(q.canvasHeight - 1)),
                    Showing(q.canvasWidth, q.sourceX, q.sourceWidth, a.x, a.width),
                    Showing(q.canvasHeight, q.sourceY, q.sourceHeight, a.y, a.height))

\* C26: in revision 2, once the 30 s timer of the AI stage has fired, the
\* workflow is no longer waiting for AI processing that is still running.
C26_StageBounded ==
    controllerAborted => ~(wpc = "aiAwait" /\ apc = "area")

\* C27: a run that has started reaches a terminal outcome: Completed, Failed
\* or Cancelled is reported.
C27_RunTerminates == (hpc # "idle") ~> (outcomes # <<>>)

\* C29: the cleanup after a failed run destroys no processor but the one of
\* that run.
C29_CleanupOwnProcessor == \A c \in cleanups : c[1] = c[2]

\* C30: handleProcessing is never entered for a new run while
\* processingState is "processing".
C30_OneActiveRun ==
    [][(\E r \in Runs : runs[r].hpc = "idle" /\ runs'[r].hpc # "idle")
          => processingState # "processing"]_vars

====
